---- MODULE Spec2Model ----
(***************************************************************************)
(* E.A.T. hierarchy browser: the tree filter of App.vue (filterTree,       *)
(* countNodes, displayedNodes, resultCount, selectCategory) and the        *)
(* expansion state of HierarchyNode.vue (expanded, isExpanded,             *)
(* toggleExpanded, the 'node.id' watcher, the keyed child lists).          *)
(*                                                                         *)
(* Strings are sequences of one-character strings.  Node objects live in   *)
(* a heap (a sequence of objects, an address is an index) so that a write  *)
(* to a copy and a write to the original are different things.  An object  *)
(* is a function from its field names to values; an absent field is a      *)
(* name outside its DOMAIN.                                                *)
(***************************************************************************)
EXTENDS Integers, Sequences, FiniteSets, TLC

VARIABLES
  heap,            \* the node objects: loaded ones first, then the copies filterTree made
  hierarchy,       \* data: addresses of the category roots
  activeCategory,  \* data: id of the selected category, or Null
  searchQuery,     \* data: the raw text of the search box
  loading,         \* data
  error,           \* data
  displayedNodes,  \* computed: addresses of the nodes handed to the tree
  mounted,         \* the HierarchyNode component instances under .hierarchy-tree
  lastOp,          \* the handler that ran last, with its argument
  loadedHeap,      \* history: the heap as res.json() built it
  collapsedAtSearch, \* history: positions collapsed when the current search began
  replacedCollapsed, \* history: collapsed positions the last render bound to another id
  call             \* a direct call of filterTree / countNodes (FilterSpec)

vars == <<heap, hierarchy, activeCategory, searchQuery, loading, error,
          displayedNodes, mounted, lastOp, loadedHeap, collapsedAtSearch,
          replacedCollapsed, call>>

sessionVars == <<heap, hierarchy, activeCategory, searchQuery, loading, error,
                 displayedNodes, mounted, lastOp, loadedHeap, collapsedAtSearch,
                 replacedCollapsed>>

(***************************************************************************)
(* Bounds                                                                  *)
(***************************************************************************)
MaxNodes == 4        \* nodes in a loaded hierarchy, category roots included
MaxCallNodes == 3    \* nodes in the argument of a direct filterTree call
MaxCategories == 2   \* category roots

Null == "null"

(***************************************************************************)
(* Strings                                                                 *)
(***************************************************************************)
LowerChar(c) == CASE c = "A" -> "a" [] c = "B" -> "b" [] OTHER -> c

\* String.prototype.toLowerCase
ToLowerCase(s) == [i \in 1..Len(s) |-> LowerChar(s[i])]

RECURSIVE TrimStart(_)
TrimStart(s) == IF s # <<>> /\ Head(s) = " " THEN TrimStart(Tail(s)) ELSE s

RECURSIVE TrimEnd(_)
TrimEnd(s) ==
  IF s # <<>> /\ s[Len(s)] = " " THEN TrimEnd(SubSeq(s, 1, Len(s) - 1)) ELSE s

\* String.prototype.trim
Trim(s) == TrimEnd(TrimStart(s))

\* String.prototype.includes
Includes(s, q) ==
  \E i \in 0..(Len(s) - Len(q)) : SubSeq(s, i + 1, i + Len(q)) = q

\* this.searchQuery.toLowerCase().trim()
Normalize(s) == Trim(ToLowerCase(s))

\* what is typed into the search box: nothing, spaces only, a text found in
\* both payloads ("a", and " B " once trimmed), in the first label only, in
\* the second description only, in none
Queries ==
  { <<>>,
    <<" ">>,
    <<"a">>,
    <<" ", "B", " ">>,
    <<"a", "B">>,
    <<"B", "a">>,
    <<"a", "a">> }

(***************************************************************************)
(* Node objects                                                            *)
(***************************************************************************)
Has(obj, f) == f \in DOMAIN obj

\* (node.label || ''), (node.description || '')
StrOr(obj, f) == IF Has(obj, f) THEN obj[f] ELSE <<>>

\* (node.subclasses || []), (node.instances || [])
ListOr(obj, f) == IF Has(obj, f) THEN obj[f] ELSE <<>>

\* filtered.subclasses = v
SetField(obj, f, v) ==
  [g \in DOMAIN obj \cup {f} |-> IF g = f THEN v ELSE obj[g]]

\* delete filtered.subclasses
DeleteField(obj, f) == [g \in DOMAIN obj \ {f} |-> obj[g]]

\* [...(node.subclasses || []), ...(node.instances || [])]
ChildrenOf(obj) == ListOr(obj, "subclasses") \o ListOr(obj, "instances")

(***************************************************************************)
(* The data sets a hierarchy is drawn from: trees as nested values, the    *)
(* shape of the parsed JSON document.                                      *)
(***************************************************************************)
NodePayloads ==
  { [id |-> "Q1", label |-> <<"A", "b">>],
    [id |-> "Q2", label |-> <<"B">>, description |-> <<"B", "a">>] }

CategoryPayload(i) == [id |-> "C" \o ToString(i), label |-> <<"A">>]

\* A node with child lists s and i.  A node that has an empty list either
\* omits its empty lists or carries them as [].
MkNodes(p, s, i, styles) ==
  { [f \in DOMAIN p \cup {g \in {"subclasses", "instances"} :
                             (IF g = "subclasses" THEN s ELSE i) # <<>> \/ st = "empty"}
       |-> CASE f = "subclasses" -> s [] f = "instances" -> i [] OTHER -> p[f]]
    : st \in (IF s # <<>> /\ i # <<>> THEN {"absent"} ELSE styles) }

RECURSIVE TreesOf(_, _, _), ForestsOf(_, _)
\* trees of exactly n nodes whose top node has a payload of P
TreesOf(n, P, styles) ==
  UNION { UNION { UNION { MkNodes(p, s, i, styles) : p \in P }
                  : s \in ForestsOf(a, styles), i \in ForestsOf(n - 1 - a, styles) }
          : a \in 0..(n - 1) }

\* sequences of trees of exactly n nodes in all
ForestsOf(n, styles) ==
  IF n = 0 THEN {<<>>}
  ELSE UNION { { <<t>> \o f : t \in TreesOf(k, NodePayloads, styles),
                              f \in ForestsOf(n - k, styles) }
               : k \in 1..n }

RECURSIVE CategoriesOf(_, _)
\* category roots numbered from i on, of exactly n nodes in all
CategoriesOf(i, n) ==
  IF n = 0 THEN {<<>>}
  ELSE IF i > MaxCategories THEN {}
  ELSE UNION { { <<t>> \o r : t \in TreesOf(k, {CategoryPayload(i)}, {"absent"}),
                              r \in CategoriesOf(i + 1, n - k) }
               : k \in 1..n }

\* data.hierarchy of the documents that can be loaded
Hierarchies == UNION { CategoriesOf(1, n) : n \in 0..MaxNodes }

\* arguments of a direct call of filterTree
CallForests == UNION { ForestsOf(n, {"absent", "empty"}) : n \in 0..MaxCallNodes }

(***************************************************************************)
(* The heap                                                                *)
(***************************************************************************)
RECURSIVE AllocNodes(_, _)
\* res.json(): builds the objects of a parsed document
AllocNodes(h, forest) ==
  IF forest = <<>> THEN [heap |-> h, refs |-> <<>>]
  ELSE LET t == Head(forest)
           s == AllocNodes(h, ListOr(t, "subclasses"))
           i == AllocNodes(s.heap, ListOr(t, "instances"))
           obj == [f \in DOMAIN t |->
                     CASE f = "subclasses" -> s.refs
                       [] f = "instances" -> i.refs
                       [] OTHER -> t[f]]
           h1 == Append(i.heap, obj)
           rest == AllocNodes(h1, Tail(forest))
       IN [heap |-> rest.heap, refs |-> <<Len(h1)>> \o rest.refs]

RECURSIVE ValueOf(_, _)
\* the nested value a sequence of addresses stands for
ValueOf(h, refs) ==
  [k \in 1..Len(refs) |->
     LET obj == h[refs[k]]
     IN [f \in DOMAIN obj |->
           IF f \in {"subclasses", "instances"} THEN ValueOf(h, obj[f]) ELSE obj[f]]]

\* a slip: const filtered = node, the copy is the object itself
SpreadCopyAlias(h, a) == [heap |-> h, ref |-> a]

\* { ...node }: a new object with the fields of the object at a
SpreadCopy(h, a) == [heap |-> Append(h, h[a]), ref |-> Len(h) + 1]

(***************************************************************************)
(* App.vue: filterTree and countNodes                                      *)
(***************************************************************************)
\* a slip: the description is not searched
SelfMatchLabelOnly(node, query) ==
  Includes(ToLowerCase(StrOr(node, "label")), query)

SelfMatch(node, query) ==
  LET labelMatch == Includes(ToLowerCase(StrOr(node, "label")), query)
      descMatch == Includes(ToLowerCase(StrOr(node, "description")), query)
  IN labelMatch \/ descMatch

\* a slip: every node is pushed
KeepAlways(selfMatch, hasMatchingChildren) == TRUE

\* if (selfMatch || hasMatchingChildren)
Keep(selfMatch, hasMatchingChildren) == selfMatch \/ hasMatchingChildren

\* a slip: the child list is deleted from every copy
NarrowFieldAlwaysDelete(obj, f, filteredList) == DeleteField(obj, f)

\* if (filteredX.length) filtered.X = filteredX else delete filtered.X
NarrowField(obj, f, filteredList) ==
  IF Len(filteredList) > 0 THEN SetField(obj, f, filteredList)
  ELSE DeleteField(obj, f)

RECURSIVE filterTree(_, _, _), filterReduce(_, _, _, _, _)
\* the callback of nodes.reduce, applied from position k on
filterReduce(h, nodes, query, k, acc) ==
  IF k > Len(nodes) THEN [heap |-> h, out |-> acc]
  ELSE LET a == nodes[k]
           selfMatch == SelfMatch(h[a], query)
           fs == filterTree(h, ListOr(h[a], "subclasses"), query)
           fi == filterTree(fs.heap, ListOr(fs.heap[a], "instances"), query)
           hasMatchingChildren == Len(fs.out) > 0 \/ Len(fi.out) > 0
       IN IF Keep(selfMatch, hasMatchingChildren)
          THEN LET c == SpreadCopy(fi.heap, a)
                   h1 == [c.heap EXCEPT ![c.ref] = NarrowField(@, "subclasses", fs.out)]
                   h2 == [h1 EXCEPT ![c.ref] = NarrowField(@, "instances", fi.out)]
               IN filterReduce(h2, nodes, query, k + 1, Append(acc, c.ref))
          ELSE filterReduce(fi.heap, nodes, query, k + 1, acc)

filterTree(h, nodes, query) == filterReduce(h, nodes, query, 1, <<>>)

RECURSIVE countNodesSkippingInstances(_, _)
\* a slip: the instances are not counted
countNodesSkippingInstances(h, nodes) ==
  IF nodes = <<>> THEN 0
  ELSE LET n == h[Head(nodes)]
       IN 1 + countNodesSkippingInstances(h, ListOr(n, "subclasses"))
            + countNodesSkippingInstances(h, Tail(nodes))

RECURSIVE countNodes(_, _)
countNodes(h, nodes) ==
  IF nodes = <<>> THEN 0
  ELSE LET n == h[Head(nodes)]
       IN 1 + countNodes(h, ListOr(n, "subclasses"))
            + countNodes(h, ListOr(n, "instances"))
            + countNodes(h, Tail(nodes))

(***************************************************************************)
(* App.vue: the computed properties                                        *)
(***************************************************************************)
\* this.hierarchy.find(r => r.id === this.activeCategory) || null ; 0 is null
activeRoot(h, hier, category) ==
  LET found == {k \in 1..Len(hier) : h[hier[k]].id = category}
  IN IF found = {} THEN 0
     ELSE hier[CHOOSE k \in found : \A j \in found : k <= j]

\* displayedNodes(): the addresses shown, and the heap with the copies made
computeDisplayedNodes(h, hier, category, query) ==
  LET root == activeRoot(h, hier, category)
  IN IF root = 0 THEN [heap |-> h, out |-> <<>>]
     ELSE LET children == ChildrenOf(h[root])
          IN IF Trim(query) = <<>> THEN [heap |-> h, out |-> children]
             ELSE filterTree(h, children, Trim(ToLowerCase(query)))

\* resultCount()
resultCount(h, displayed, query) ==
  IF Trim(query) = <<>> THEN 0 ELSE countNodes(h, displayed)

(***************************************************************************)
(* HierarchyNode.vue: one component instance per rendered node.  An        *)
(* instance is [key, node, expanded, kids]: its key in the parent's list,  *)
(* the address bound to its node prop, its data, its child instances.      *)
(***************************************************************************)
\* :key="node.id + '-' + index"
KeyOf(id, index) == id \o "-" \o ToString(index)

\* a slip: expanded: false
InitialCollapsed == FALSE

\* data(): expanded: true
InitialExpanded == TRUE

\* isExpanded(): if (this.searchQuery) return true; return this.expanded
isExpanded(inst, query) == IF query # <<>> THEN TRUE ELSE inst.expanded

\* hasChildren()
hasChildren(h, inst) == Len(ChildrenOf(h[inst.node])) > 0

\* a slip: the flag is flipped whatever the query
toggleExpandedUnguarded(inst, query) == [inst EXCEPT !.expanded = ~inst.expanded]

\* toggleExpanded(): if (!this.searchQuery) this.expanded = !this.expanded
toggleExpanded(inst, query) ==
  IF query = <<>> THEN [inst EXCEPT !.expanded = ~inst.expanded] ELSE inst

\* watch 'node.id': this.expanded = true, when the id of the bound node changed
WatchNodeId(expanded, oldId, newId) == IF oldId # newId THEN TRUE ELSE expanded

RECURSIVE Patch(_, _, _, _)
\* The keyed v-for over a child list: an old instance with the same key is
\* kept and gets the new node bound, any other position is mounted anew, and
\* the old instances whose keys are gone are unmounted.
Patch(old, oldHeap, h, nodes) ==
  [k \in 1..Len(nodes) |->
     LET a == nodes[k]
         key == KeyOf(h[a].id, k - 1)
         same == {j \in 1..Len(old) : old[j].key = key}
     IN IF same # {}
        THEN LET o == old[CHOOSE j \in same : TRUE]
             IN [key |-> key,
                 node |-> a,
                 expanded |-> WatchNodeId(o.expanded, oldHeap[o.node].id, h[a].id),
                 kids |-> Patch(o.kids, oldHeap, h, ChildrenOf(h[a]))]
        ELSE [key |-> key,
              node |-> a,
              expanded |-> InitialExpanded,
              kids |-> Patch(<<>>, oldHeap, h, ChildrenOf(h[a]))]]

\* <template v-else-if="activeRoot"> after v-if="loading", v-else-if="error"
TreeShown(h, hier, category, isLoading, err) ==
  ~isLoading /\ err = Null /\ activeRoot(h, hier, category) # 0

RECURSIVE InstancePaths(_)
\* the positions of the mounted instances: index paths from the top list
InstancePaths(insts) ==
  UNION { {<<k>>} \cup {<<k>> \o p : p \in InstancePaths(insts[k].kids)}
          : k \in 1..Len(insts) }

RECURSIVE InstanceAt(_, _)
InstanceAt(insts, p) ==
  IF Len(p) = 1 THEN insts[p[1]] ELSE InstanceAt(insts[p[1]].kids, Tail(p))

RECURSIVE ToggleAt(_, _, _)
ToggleAt(insts, p, query) ==
  [insts EXCEPT ![p[1]] =
     IF Len(p) = 1 THEN toggleExpanded(@, query)
     ELSE [@ EXCEPT !.kids = ToggleAt(@, Tail(p), query)]]

\* v-show="isExpanded" on .node-body: a node under a collapsed one is not on screen
OnScreen(insts, p, query) ==
  \A n \in 1..(Len(p) - 1) : isExpanded(InstanceAt(insts, SubSeq(p, 1, n)), query)

CollapsedPaths(insts) ==
  {p \in InstancePaths(insts) : ~InstanceAt(insts, p).expanded}

(***************************************************************************)
(* The session                                                             *)
(***************************************************************************)
\* the objects res.json() built; the copies of an earlier render are garbage
LoadedPart(h, loaded) == SubSeq(h, 1, Len(loaded))

\* the id of the node bound to the instance at position p
BoundId(h, insts, p) == h[InstanceAt(insts, p).node].id

\* re-evaluation of displayedNodes and the re-render that follows a change
Render(h, hier, category, query, isLoading, err) ==
  \E d \in {computeDisplayedNodes(h, hier, category, query)} :
    /\ heap' = d.heap
    /\ displayedNodes' = d.out
    /\ mounted' = IF TreeShown(d.heap, hier, category, isLoading, err)
                  THEN Patch(mounted, heap, d.heap, d.out)
                  ELSE <<>>
    /\ replacedCollapsed' =
         {p \in CollapsedPaths(mounted) \cap InstancePaths(mounted') :
            BoundId(heap, mounted, p) # BoundId(d.heap, mounted', p)}

IdleCall == [pc |-> "idle"]

Init ==
  /\ heap = <<>>
  /\ hierarchy = <<>>
  /\ activeCategory = Null
  /\ searchQuery = <<>>
  /\ loading = TRUE
  /\ error = Null
  /\ displayedNodes = <<>>
  /\ mounted = <<>>
  /\ lastOp = [op |-> "init"]
  /\ loadedHeap = <<>>
  /\ collapsedAtSearch = {}
  /\ replacedCollapsed = {}
  /\ call = IdleCall

\* created(), the fetch and the parse succeeding
Created(data) ==
  /\ loading
  /\ LET al == AllocNodes(<<>>, data)
         category == IF Len(al.refs) > 0 THEN al.heap[al.refs[1]].id ELSE activeCategory
     IN /\ hierarchy' = al.refs
        /\ activeCategory' = category
        /\ loadedHeap' = al.heap
        /\ Render(al.heap, al.refs, category, searchQuery, FALSE, error)
  /\ loading' = FALSE
  /\ lastOp' = [op |-> "created"]
  /\ UNCHANGED <<searchQuery, error, collapsedAtSearch, call>>

\* created(), the fetch or the parse throwing
CreatedFailed ==
  /\ loading
  /\ error' = "Failed to load hierarchy data."
  /\ loading' = FALSE
  /\ lastOp' = [op |-> "createdFailed"]
  /\ UNCHANGED <<heap, hierarchy, activeCategory, searchQuery, displayedNodes,
                 mounted, loadedHeap, collapsedAtSearch, replacedCollapsed, call>>

\* v-model="searchQuery": the text of the search box changes to q
SetQuery(q) ==
  /\ q # searchQuery
  /\ searchQuery' = q
  /\ Render(LoadedPart(heap, loadedHeap), hierarchy, activeCategory, q, loading, error)
  /\ collapsedAtSearch' =
       IF searchQuery = <<>> THEN CollapsedPaths(mounted)
       ELSE IF q = <<>> THEN {} ELSE collapsedAtSearch
  /\ lastOp' = [op |-> "setQuery", query |-> q]
  /\ UNCHANGED <<hierarchy, activeCategory, loading, error, loadedHeap, call>>

\* a slip: selecting a category also empties the search box
selectCategoryClearingQuery(id) ==
  /\ activeCategory' = id
  /\ searchQuery' = <<>>
  /\ Render(LoadedPart(heap, loadedHeap), hierarchy, id, <<>>, loading, error)
  /\ collapsedAtSearch' = {}
  /\ lastOp' = [op |-> "selectCategory", id |-> id]
  /\ UNCHANGED <<hierarchy, loading, error, loadedHeap, call>>

\* selectCategory(id)
selectCategory(id) ==
  /\ activeCategory' = id
  /\ Render(LoadedPart(heap, loadedHeap), hierarchy, id, searchQuery, loading, error)
  /\ collapsedAtSearch' = {}
  /\ lastOp' = [op |-> "selectCategory", id |-> id]
  /\ UNCHANGED <<hierarchy, searchQuery, loading, error, loadedHeap, call>>

\* a click on a tab of .category-tabs
ClickCategory == \E k \in 1..Len(hierarchy) : selectCategory(heap[hierarchy[k]].id)

\* a click on the .toggle-indicator of the instance at position p
ClickToggle(p) ==
  /\ hasChildren(heap, InstanceAt(mounted, p))
  /\ OnScreen(mounted, p, searchQuery)
  /\ mounted' = ToggleAt(mounted, p, searchQuery)
  /\ lastOp' = [op |-> "toggleExpanded", path |-> p]
  /\ replacedCollapsed' = {}
  /\ UNCHANGED <<heap, hierarchy, activeCategory, searchQuery, loading, error,
                 displayedNodes, loadedHeap, collapsedAtSearch, call>>

Next ==
  \/ \E data \in Hierarchies : Created(data)
  \/ CreatedFailed
  \/ \E q \in Queries : SetQuery(q)
  \/ ClickCategory
  \/ \E p \in InstancePaths(mounted) : ClickToggle(p)

Spec == Init /\ [][Next]_vars

(***************************************************************************)
(* Direct calls: filterTree and countNodes applied to an argument          *)
(***************************************************************************)
\* the queries filterTree is handed: lower-cased and trimmed
NormalQueries == {Normalize(q) : q \in Queries}

CallInit ==
  /\ heap = <<>>
  /\ hierarchy = <<>>
  /\ activeCategory = Null
  /\ searchQuery = <<>>
  /\ loading = TRUE
  /\ error = Null
  /\ displayedNodes = <<>>
  /\ mounted = <<>>
  /\ lastOp = [op |-> "init"]
  /\ loadedHeap = <<>>
  /\ collapsedAtSearch = {}
  /\ replacedCollapsed = {}
  /\ \E forest \in CallForests, q \in NormalQueries :
       LET al == AllocNodes(<<>>, forest)
       IN call = [pc |-> "ready", heap |-> al.heap, nodes |-> al.refs, query |-> q]

\* this.filterTree(nodes, query)
CallFilterTree ==
  /\ call.pc = "ready"
  /\ LET r == filterTree(call.heap, call.nodes, call.query)
     IN call' = [pc |-> "filtered", heap |-> call.heap, nodes |-> call.nodes,
                 query |-> call.query, heapAfter |-> r.heap, out |-> r.out]
  /\ UNCHANGED sessionVars

\* this.countNodes(the filtered sequence)
CallCountNodes ==
  /\ call.pc = "filtered"
  /\ call' = [pc |-> "counted", heap |-> call.heap, nodes |-> call.nodes,
              query |-> call.query, heapAfter |-> call.heapAfter, out |-> call.out,
              count |-> countNodes(call.heapAfter, call.out)]
  /\ UNCHANGED sessionVars

CallNext == CallFilterTree \/ CallCountNodes

FilterSpec == CallInit /\ [][CallNext]_vars

(***************************************************************************)
(* Positions in a tree of values.  A position is a sequence of steps       *)
(* <<field, index>> from the top sequence (field "top") downwards.         *)
(***************************************************************************)
RECURSIVE NodePaths(_, _)
NodePaths(forest, field) ==
  UNION { {<< <<field, k>> >>}
            \cup { << <<field, k>> >> \o p :
                     p \in NodePaths(ListOr(forest[k], "subclasses"), "subclasses")
                             \cup NodePaths(ListOr(forest[k], "instances"), "instances") }
          : k \in 1..Len(forest) }

RECURSIVE NodeAt(_, _)
NodeAt(forest, p) ==
  LET node == forest[p[1][2]]
  IN IF Len(p) = 1 THEN node ELSE NodeAt(node[p[2][1]], Tail(p))

IsPrefix(p, r) == Len(p) <= Len(r) /\ SubSeq(r, 1, Len(p)) = p

\* the fields of a node other than its child lists
Payload(node) == [f \in DOMAIN node \ {"subclasses", "instances"} |-> node[f]]

\* q is a substring of the lower-cased label or of the lower-cased description
Matches(node, q) ==
  \/ Includes(ToLowerCase(node.label), q)
  \/ Has(node, "description") /\ Includes(ToLowerCase(node.description), q)

\* r leads, in the filtered tree R, to the node that p leads to in T, through
\* the copies of the same ancestors along the same fields
SamePath(T, p, R, r) ==
  /\ Len(r) = Len(p)
  /\ \A n \in 1..Len(p) :
       /\ r[n][1] = p[n][1]
       /\ r[n][2] <= p[n][2]
       /\ Payload(NodeAt(R, SubSeq(r, 1, n))) = Payload(NodeAt(T, SubSeq(p, 1, n)))

\* no node carries a present-but-empty child list
NoEmptyLists(forest) ==
  \A p \in NodePaths(forest, "top") :
    \A f \in {"subclasses", "instances"} :
      Has(NodeAt(forest, p), f) => NodeAt(forest, p)[f] # <<>>

CallDone == call.pc \in {"filtered", "counted"}
CallArg == ValueOf(call.heap, call.nodes)
CallResult == ValueOf(call.heapAfter, call.out)

\* C1 (completeness): after filterTree(T, q) with q non-empty, every node of T
\* whose lower-cased label or description contains q is in the result, under
\* the copies of all its ancestors, along the same parent-child path.
C1_Completeness ==
  (CallDone /\ call.query # <<>>) =>
    \A p \in NodePaths(CallArg, "top") :
      Matches(NodeAt(CallArg, p), call.query) =>
        \E r \in NodePaths(CallResult, "top") : SamePath(CallArg, p, CallResult, r)

\* a match two levels down, under a parent that does not match, with
\* something pruned beside it
C1_Witness ==
  /\ CallDone /\ call.query # <<>>
  /\ Cardinality(NodePaths(CallResult, "top")) < Cardinality(NodePaths(CallArg, "top"))
  /\ \E p \in NodePaths(CallArg, "top") :
       /\ Len(p) = 2
       /\ Matches(NodeAt(CallArg, p), call.query)
       /\ ~Matches(NodeAt(CallArg, SubSeq(p, 1, 1)), call.query)
       /\ p[2][2] > 1

\* C2 (no dead branches): after filterTree(T, q) with q non-empty, every node
\* of the result, at every depth, matches q itself or has a descendant in the
\* result that matches q.
C2_NoDeadBranches ==
  (CallDone /\ call.query # <<>>) =>
    \A r \in NodePaths(CallResult, "top") :
      \E d \in NodePaths(CallResult, "top") :
        IsPrefix(r, d) /\ Matches(NodeAt(CallResult, d), call.query)

\* a single matching node whose children, none of them matching, are all gone
C2_Witness ==
  /\ CallDone /\ call.query # <<>>
  /\ Len(CallArg) = 1
  /\ Matches(CallArg[1], call.query)
  /\ Len(ChildrenOf(CallArg[1])) = 2
  /\ \A p \in NodePaths(CallArg, "top") :
       Len(p) > 1 => ~Matches(NodeAt(CallArg, p), call.query)
  /\ Len(CallResult) = 1
  /\ ChildrenOf(CallResult[1]) = <<>>

\* C3 as stated: filterTree(T, "") is structurally equal to T, for every T.
C3_IdentityOnEmptyQuery ==
  (CallDone /\ call.query = <<>>) => CallResult = CallArg

\* C3 amended: filterTree(T, "") is structurally equal to T when no node of T
\* carries a present-but-empty subclasses or instances sequence.
C3_IdentityWithoutEmptyLists ==
  (CallDone /\ call.query = <<>> /\ NoEmptyLists(CallArg)) => CallResult = CallArg

\* the empty query on a tree two levels deep without empty lists
C3_Witness ==
  /\ CallDone /\ call.query = <<>>
  /\ NoEmptyLists(CallArg)
  /\ \E p \in NodePaths(CallArg, "top") : Len(p) = 2
  /\ Len(CallArg) = 2

(***************************************************************************)
(* The session against the data as loaded                                  *)
(***************************************************************************)
\* the children (subclasses then instances) of the first root with this id,
\* as loaded; none when no root has the id
CategoryChildren(loaded, hier, id) ==
  LET ks == {k \in 1..Len(hier) : loaded[hier[k]].id = id}
  IN IF ks = {} THEN <<>>
     ELSE LET first == CHOOSE k \in ks : \A j \in ks : k <= j
              root == loaded[hier[first]]
          IN ValueOf(loaded, ListOr(root, "subclasses"))
               \o ValueOf(loaded, ListOr(root, "instances"))

\* the positions of a tree that lead to a match or lie above one
RetainedPaths(forest, q) ==
  {p \in NodePaths(forest, "top") :
     \E d \in NodePaths(forest, "top") : IsPrefix(p, d) /\ Matches(NodeAt(forest, d), q)}

RECURSIVE Pruned(_, _)
\* the tree cut down to its retained positions, a child list that became
\* empty left out
Pruned(forest, q) ==
  IF forest = <<>> THEN <<>>
  ELSE LET n == Head(forest)
           s == Pruned(ListOr(n, "subclasses"), q)
           i == Pruned(ListOr(n, "instances"), q)
           fields == DOMAIN Payload(n)
                       \cup (IF s # <<>> THEN {"subclasses"} ELSE {})
                       \cup (IF i # <<>> THEN {"instances"} ELSE {})
           copy == [f \in fields |->
                      CASE f = "subclasses" -> s [] f = "instances" -> i [] OTHER -> n[f]]
       IN (IF Matches(n, q) \/ s # <<>> \/ i # <<>> THEN <<copy>> ELSE <<>>)
            \o Pruned(Tail(forest), q)

Displayed == ValueOf(heap, displayedNodes)
ActiveChildren == CategoryChildren(loadedHeap, hierarchy, activeCategory)
AllInstances == {InstanceAt(mounted, p) : p \in InstancePaths(mounted)}

\* C4 (no mutation): whatever queries were typed and categories selected,
\* every object of the loaded hierarchy has the fields, the values and the
\* child sequences it was loaded with.
C4_SourceUntouched ==
  /\ Len(heap) >= Len(loadedHeap)
  /\ SubSeq(heap, 1, Len(loadedHeap)) = loadedHeap

\* a category with one child, shown as a copy that lost a child list its
\* source still has
C4_Witness ==
  /\ lastOp.op \in {"setQuery", "selectCategory"}
  /\ Len(ActiveChildren) = 1
  /\ Len(displayedNodes) = 1
  /\ displayedNodes[1] > Len(loadedHeap)
  /\ ChildrenOf(ActiveChildren[1]) # <<>>
  /\ ChildrenOf(heap[displayedNodes[1]]) = <<>>

\* C5 (count): resultCount is 0 when the trimmed query is empty, and otherwise
\* the number of nodes of the active category retained by the filter: those
\* matching the normalized query and those above a match.
C5_CountConsistency ==
  resultCount(heap, displayedNodes, searchQuery) =
    IF Trim(searchQuery) = <<>> THEN 0
    ELSE Cardinality(RetainedPaths(ActiveChildren, Normalize(searchQuery)))

\* a count that includes a node kept only as a path and leaves a node out
C5_Witness ==
  /\ Normalize(searchQuery) # <<>>
  /\ resultCount(heap, displayedNodes, searchQuery) >= 2
  /\ resultCount(heap, displayedNodes, searchQuery)
       < Cardinality(NodePaths(ActiveChildren, "top"))
  /\ \E p \in NodePaths(Displayed, "top") :
       ~Matches(NodeAt(Displayed, p), Normalize(searchQuery))

\* C6 (toggle under a query): while the query is non-empty, toggleExpanded
\* leaves every stored flag as it was, and every instance is displayed expanded.
C6_ToggleNoOpUnderQuery ==
  [][ /\ (lastOp'.op = "toggleExpanded" /\ searchQuery # <<>>) => mounted' = mounted
      /\ searchQuery' # <<>> =>
           \A p \in InstancePaths(mounted') :
             isExpanded(InstanceAt(mounted', p), searchQuery') ]_vars

\* a toggle clicked under a query on an instance whose stored flag is collapsed
C6_Witness ==
  /\ lastOp.op = "toggleExpanded"
  /\ searchQuery # <<>>
  /\ ~InstanceAt(mounted, lastOp.path).expanded
  /\ isExpanded(InstanceAt(mounted, lastOp.path), searchQuery)

\* C7 (a collapse survives a search): when the query is cleared, every position
\* that was collapsed when the search began, no category having been selected
\* since, is displayed collapsed again.
C7_CollapseSurvivesSearch ==
  [][ (searchQuery # <<>> /\ searchQuery' = <<>>) =>
        \A p \in collapsedAtSearch :
          /\ p \in InstancePaths(mounted')
          /\ ~isExpanded(InstanceAt(mounted', p), searchQuery') ]_vars

\* C8 (reset on identity change): when a render binds the instance position p
\* to a node of another id, the flag stored at p is expanded afterwards.
C8_ResetOnIdentityChange ==
  [][ \A p \in InstancePaths(mounted) \cap InstancePaths(mounted') :
        BoundId(heap, mounted, p) # BoundId(heap', mounted', p) =>
          InstanceAt(mounted', p).expanded ]_vars

\* a collapsed position has just been bound to a node of another id
C8_Witness ==
  /\ replacedCollapsed # {}
  /\ \A p \in replacedCollapsed : InstanceAt(mounted, p).expanded

\* C9 (selecting a category): selectCategory(id) sets the active category and
\* leaves the query and the hierarchy as they were; the nodes displayed then are
\* the children of the root with that id, pruned by the same normalized query.
C9_SelectCategoryFrame ==
  [][ lastOp'.op = "selectCategory" =>
        /\ activeCategory' = lastOp'.id
        /\ searchQuery' = searchQuery
        /\ hierarchy' = hierarchy
        /\ loadedHeap' = loadedHeap
        /\ SubSeq(heap', 1, Len(loadedHeap)) = SubSeq(heap, 1, Len(loadedHeap))
        /\ ValueOf(heap', displayedNodes') =
             LET kids == CategoryChildren(loadedHeap, hierarchy, lastOp'.id)
             IN IF Normalize(searchQuery) = <<>> THEN kids
                ELSE Pruned(kids, Normalize(searchQuery)) ]_vars

\* the second category selected under a query that prunes its children
C9_Witness ==
  /\ lastOp.op = "selectCategory"
  /\ activeCategory = "C2"
  /\ Normalize(searchQuery) # <<>>
  /\ Displayed # <<>>
  /\ Displayed # ActiveChildren

\* C10 (agreement on an active query): whenever the normalized query is empty,
\* a raw query of spaces included, the nodes displayed are the unfiltered
\* children, every instance is displayed as its stored flag says, and
\* toggleExpanded flips the stored flag.
C10_QueryActiveAgreement ==
  [][ /\ Normalize(searchQuery') = <<>> =>
           /\ ValueOf(heap', displayedNodes')
                = CategoryChildren(loadedHeap', hierarchy', activeCategory')
           /\ \A p \in InstancePaths(mounted') :
                isExpanded(InstanceAt(mounted', p), searchQuery')
                  = InstanceAt(mounted', p).expanded
      /\ (Normalize(searchQuery) = <<>> /\ lastOp'.op = "toggleExpanded") =>
           InstanceAt(mounted', lastOp'.path).expanded
             = ~InstanceAt(mounted, lastOp'.path).expanded ]_vars

====
